---- MODULE Spec2Model ----
(***************************************************************************)
(* A model of checkSumDirs.py: the per-directory manifest builder          *)
(* (doOneDir), its entry classification, the backup-name test (isBackup),  *)
(* the staleness test (dirAlreadyUpToDate) and the driving main loop.      *)
(*                                                                         *)
(* Strings are sequences of one-character strings, so that indexing,       *)
(* slicing, os.path.splitext and the regular expressions of isBackup are   *)
(* computed the way Python computes them.                                  *)
(***************************************************************************)
EXTENDS Integers, Sequences, FiniteSets, TLC

VARIABLES
    args,         \* the parsed command line (argparse namespace)
    env,          \* the host: what `diskutil` does
    fs,           \* the file system: directory id -> listing (sequence of entries)
    mainpc,       \* position of __main__: "main", "build", "done", "crashed"
    fileIdx,      \* index into args.files of the root being processed
    stack,        \* call stack of doOneDir activations, top last
    out,          \* what was printed to stdout, in order
    returned,     \* history: what each doOneDir call returned, in order
    digestCalls,  \* history: get_digest calls, per index of args.files
    exc,          \* the uncaught exception that ended the program, or "none"
    now,          \* the last clock value read
    probe         \* harness for the pure functions: [fn, arg, res]

vars == <<args, env, fs, mainpc, fileIdx, stack, out, returned, digestCalls,
          exc, now, probe>>

-----------------------------------------------------------------------------
(* Bounds of the model. *)

MaxEntries == 3       \* longest listing of the root directory
MaxSubEntries == 1    \* longest listing of a subdirectory
MaxClock == 1         \* largest clock value
MaxTime == 2          \* largest modification time given to dirAlreadyUpToDate
MaxFileLen == 129     \* longest file given to get_digest, in bytes
MaxLinks == 2         \* most links followed in one path (ELOOP beyond; 40 on Linux)

-----------------------------------------------------------------------------
(* Characters and strings. *)

Letters == {"a","b","c","d","e","f","g","h","i","j","k","l","m","n","o","p",
            "q","r","s","t","u","v","w","x","y","z","C","D","S","T"}
Digits == {"0","1","2","3","4","5","6","7","8","9"}
\* \w of Python's re for str patterns (restricted to the characters in use)
WordChars == Letters \cup Digits \cup {"_"}
\* \s of Python's re (restricted to the characters in use)
Whitespace == {" ", "\t", "\n"}

\* s[a:b] of Python for 0 <= a, b <= len(s), as 1-based SubSeq
Slice(s, a, b) == SubSeq(s, a + 1, b)

StartsWith(s, w) == Len(s) >= Len(w) /\ SubSeq(s, 1, Len(w)) = w

\* str.rfind(c): the 0-based index of the last c in s, or -1
RFind(s, c) ==
    LET hits == {k \in 1..Len(s) : s[k] = c}
    IN  IF hits = {} THEN -1 ELSE (CHOOSE k \in hits : \A j \in hits : j <= k) - 1

\* os.path.join(path, f) for a name f that holds no "/"
PathJoin(path, f) ==
    IF path # <<>> /\ path[Len(path)] = "/" THEN path \o f
    ELSE path \o <<"/">> \o f

\* os.path.splitext (genericpath._splitext with sep "/" and extsep "."):
\* the extension starts at the last dot after the last separator, unless
\* only dots precede it in the file name
SplitExt(p) ==
    LET sepIndex == RFind(p, "/")
        dotIndex == RFind(p, ".")
    IN  IF dotIndex > sepIndex
           /\ \E k \in (sepIndex + 1)..(dotIndex - 1) : p[k + 1] # "."
        THEN <<Slice(p, 0, dotIndex), Slice(p, dotIndex, Len(p))>>
        ELSE <<p, <<>> >>

Keywords == { <<"b","a","c","k","u","p">>, <<"c","o","p","y">> }

\* re.match(r'\b(backup|copy)\b', s): the match is anchored at position 0;
\* the first \b needs a word character there (the keyword's own), the
\* second needs the end of s or a non-word character after the keyword
MatchKeywords(s) ==
    \E w \in Keywords :
        /\ StartsWith(s, w)
        /\ (Len(s) = Len(w) \/ s[Len(w) + 1] \notin WordChars)

\* $ of Python's re at 0-based position k: the end, or just before a final "\n"
AtDollar(s, k) == k = Len(s) \/ (k = Len(s) - 1 /\ s[Len(s)] = "\n")

\* re.match(r'\b(backup|copy)\b(\s\d+)?$', s)
MatchKeywordsNumbered(s) ==
    \E w \in Keywords :
        /\ StartsWith(s, w)
        /\ (Len(s) = Len(w) \/ s[Len(w) + 1] \notin WordChars)
        /\ \/ AtDollar(s, Len(w))
           \/ \E k \in (Len(w) + 2)..Len(s) :
                /\ s[Len(w) + 1] \in Whitespace
                /\ \A j \in (Len(w) + 2)..k : s[j] \in Digits
                /\ AtDollar(s, k)

\* isBackup(path): the path is tested as a whole, and the extension that
\* splitext returns keeps its leading dot
BackupExts == { <<"b","a","k">>, <<"b","k","u","p">>, <<"t","m","p">> }

isBackup(path) ==
    LET root == SplitExt(path)[1]
        ext  == SplitExt(path)[2]
    IN  \/ path[1] \in {"~", "#"}
        \/ path[Len(path)] \in {"~", "#"}
        \/ ext \in BackupExts
        \/ MatchKeywords(path)
        \/ MatchKeywordsNumbered(root)

-----------------------------------------------------------------------------
(* The file system. *)

\* an uncaught exception / a returned value
Raise(e) == [ok |-> FALSE, val |-> e]
Return(v) == [ok |-> TRUE, val |-> v]

\* directories of the model: the root D, a subdirectory S, a subdirectory T
\* of S, a mounted volume M
DirIds == {"D", "S", "T", "M"}
NoDir == "-"

\* hashlib.sha256().block_size
BlockSize == 64
\* the indices of the stat module into an os.stat_result (0-based)
ST_INO == 1
ST_SIZE == 6
ST_MTIME == 8

\* os.stat_result as the tuple it compares and indexes as:
\* (st_mode, st_ino, st_dev, st_nlink, st_uid, st_gid, st_size, st_atime,
\*  st_mtime, st_ctime)
StatResult(mode, ino, size, mtime) ==
    <<mode, ino, 1, 1, 0, 0, size, mtime, mtime, mtime>>

\* s[k] of Python on a stat_result
StatField(s, k) == s[k + 1]

\* st_mode of a directory (S_IFDIR | 0755, 0700) and of a regular file
\* (S_IFREG | 0644, 0600)
DirModes == {16877, 16832}
FileModes == {33188, 33152}

Entry(name, kind, target, ino, mtime, data) ==
    [name |-> name, kind |-> kind, target |-> target, ino |-> ino,
     mtime |-> mtime, data |-> data]

\* the kinds of entry: "file", "dir", "mount" (a directory on which a
\* volume is mounted), "linkf" and "linkd" (a symbolic link to a file, to a
\* directory), and three that open() refuses: "noperm" (a regular file
\* without read permission), "dangling" (a symbolic link to nothing), "gone"
\* (a name that was listed and whose file was removed since)
\* os.path.islink, os.path.isdir (follows links), DirEntry.is_dir (follows
\* links), os.path.ismount (false for a link)
islink(e) == e.kind \in {"linkf", "linkd", "dangling"}
isdir(e) == e.kind \in {"dir", "mount", "linkd"}
ismount(e) == e.kind = "mount"

\* os.stat(fpath), which follows links
stat(e) ==
    IF isdir(e) THEN StatResult(16877, e.ino, 96, e.mtime)
    ELSE StatResult(33188, e.ino, Len(e.data), e.mtime)

\* the names used for entries
NameA == <<"a",".","t","x","t">>
NameHidden == <<".","h","i","d","d","e","n">>
NameBak == <<"b",".","b","a","k">>
NameTilde == <<"x","~">>
NameHiddenTilde == <<".","f","o","o","~">>
NameM == <<"m">>
NameL == <<"l">>
NameS == <<"S">>
NameT == <<"T">>
NameC == <<"c",".","t","x","t">>
NameU == <<"u">>
NameG == <<"g">>
NameV == <<"v">>
NameUp == <<"u", "p">>
\* a file name with a byte that is no UTF-8: os.listdir gives it as str
\* with the lone surrogate U+DCFF (surrogateescape)
Surrogate == "U+DCFF"
NameBad == <<Surrogate, ".", "t", "x", "t">>
NameOut == <<".","c","h","e","c","k","S","u","m","s">>

RootPath == <<"/","D">>
FilePath == <<"/","F">>
MissingPath == <<"/","X">>

\* what the root directory may hold
RootPool == {
    Entry(NameA, "file", NoDir, 11, 1, <<"x">>),
    Entry(NameHidden, "file", NoDir, 12, 2, <<>>),
    Entry(NameBak, "file", NoDir, 13, 1, <<"y">>),
    Entry(NameTilde, "file", NoDir, 14, 2, <<"x">>),
    Entry(NameTilde, "linkf", NoDir, 11, 1, <<"x">>),
    Entry(NameTilde, "mount", "M", 2, 1, <<>>),
    Entry(NameHiddenTilde, "file", NoDir, 15, 1, <<>>),
    Entry(NameHiddenTilde, "linkf", NoDir, 13, 1, <<"y">>),
    Entry(NameM, "mount", "M", 2, 1, <<>>),
    Entry(NameL, "linkf", NoDir, 11, 1, <<"x">>),
    Entry(NameS, "dir", "S", 20, 2, <<>>),
    Entry(NameS, "linkd", "S", 20, 2, <<>>) }

\* what a subdirectory may hold
SubPool == {
    Entry(NameC, "file", NoDir, 21, 1, <<"x">>),
    Entry(NameHidden, "file", NoDir, 22, 2, <<>>),
    Entry(NameTilde, "file", NoDir, 23, 2, <<"y">>),
    Entry(NameT, "dir", "T", 24, 1, <<>>) }

\* entries that cannot be opened, and one that can
ErrPool == {
    Entry(NameA, "file", NoDir, 11, 1, <<"x">>),
    Entry(NameU, "noperm", NoDir, 16, 1, <<"y">>),
    Entry(NameG, "dangling", NoDir, 17, 1, <<>>),
    Entry(NameV, "gone", NoDir, 18, 1, <<>>) }

\* the sequences of at most n entries of pool, no name twice
RECURSIVE Listings(_, _)
Listings(pool, n) ==
    IF n = 0 THEN { <<>> }
    ELSE LET shorter == Listings(pool, n - 1)
         IN  shorter \cup
             { Append(l, e) : l \in {x \in shorter : Len(x) = n - 1},
                              e \in pool }

DistinctNames(l) == \A i, j \in 1..Len(l) : i # j => l[i].name # l[j].name

\* os.listdir(path): the names, in the order the file system gives them
listdir(d) == [k \in 1..Len(fs[d]) |-> fs[d][k].name]

\* the entry called f in directory d
Lookup(d, f) == fs[d][CHOOSE k \in 1..Len(fs[d]) : fs[d][k].name = f]

-----------------------------------------------------------------------------
(* Digests. *)

\* hashlib.sha256 of a byte string: an injective function of the bytes
Sha256Hex(bytes) == [kind |-> "sha256", of |-> bytes]
\* the integer 0 that get_dir_digest returns, and Python's None
Zero == [kind |-> "int", of |-> <<>>]
None == [kind |-> "None", of |-> <<>>]

\* ReadLoop that ends at the first read shorter than block_size, before
\* feeding it to the hash
RECURSIVE ReadLoopWholeChunks(_, _, _)
ReadLoopWholeChunks(data, pos, h) ==
    LET chunk == Slice(data, pos, IF pos + BlockSize < Len(data)
                                  THEN pos + BlockSize ELSE Len(data))
    IN  IF Len(chunk) < BlockSize THEN h
        ELSE ReadLoopWholeChunks(data, pos + Len(chunk), h \o chunk)

\* the loop of get_digest: read block_size bytes at a time from position
\* pos and feed them to the hash h, until a read returns nothing
RECURSIVE ReadLoop(_, _, _)
ReadLoop(data, pos, h) ==
    LET chunk == Slice(data, pos, IF pos + BlockSize < Len(data)
                                  THEN pos + BlockSize ELSE Len(data))
    IN  IF chunk = <<>> THEN h
        ELSE ReadLoop(data, pos + Len(chunk), h \o chunk)

\* get_digest that gives a symbolic link the integer 0 instead of reading
\* through it
get_digestNotThroughLinks(e) ==
    IF isdir(e) THEN Raise("IsADirectoryError")
    ELSE IF e.kind = "noperm" THEN Raise("PermissionError")
    ELSE IF e.kind \in {"dangling", "gone"} THEN Raise("FileNotFoundError")
    ELSE IF islink(e) THEN Return(Zero)
    ELSE Return(Sha256Hex(ReadLoop(e.data, 0, <<>>)))

\* get_digest(path) of the file or directory that entry e names; open()
\* is not guarded, so what it raises leaves get_digest
get_digest(e) ==
    IF isdir(e) THEN Raise("IsADirectoryError")
    ELSE IF e.kind = "noperm" THEN Raise("PermissionError")
    ELSE IF e.kind \in {"dangling", "gone"} THEN Raise("FileNotFoundError")
    ELSE Return(Sha256Hex(ReadLoop(e.data, 0, <<>>)))

\* get_str_digest(s): hashlib refuses a str that was not encoded
get_str_digest(s) == Raise("TypeError")

\* the characters in use, in the order of their code points ("U+DCFF" is
\* the one character that os.listdir gives for a byte 0xFF of a file name
\* that is no UTF-8)
CodePoints ==
    <<"\n", " ", "#", ".", "/", "0", "1", "2", "3", "4", "5", "6", "7", "8",
      "9", "C", "D", "S", "T", "_", "a", "b", "c", "d", "e", "f", "g", "h",
      "i", "j", "k", "l", "m", "n", "o", "p", "q", "r", "s", "t", "u", "v",
      "w", "x", "y", "z", "~", "U+DCFF">>
Ord(c) == CHOOSE k \in 1..Len(CodePoints) : CodePoints[k] = c

\* x < y of Python on strings
StrLess(x, y) ==
    \E k \in 1..(Len(x) + 1) :
        /\ k <= Len(y)
        /\ \A j \in 1..(k - 1) : x[j] = y[j]
        /\ (k = Len(x) + 1 \/ Ord(x[k]) < Ord(y[k]))

\* sorted(names) for names that all differ
Sorted(names) ==
    LET all == {names[k] : k \in 1..Len(names)}
    IN  [k \in 1..Len(names) |->
            CHOOSE f \in all :
                Cardinality({g \in all : StrLess(g, f)}) = k - 1]

\* sep.join(names)
RECURSIVE Join(_, _)
Join(names, sep) ==
    IF names = <<>> THEN <<>>
    ELSE IF Len(names) = 1 THEN names[1]
    ELSE names[1] \o sep \o Join(Tail(names), sep)

\* get_dir_digest(path), path naming directory d: args has no attribute
\* `dirs` (no option sets it); with one, SELF opens the directory as a file
get_dir_digest(a, d) ==
    IF "dirs" \notin DOMAIN a THEN Raise("AttributeError")
    ELSE IF a.dirs = "SELF" THEN Raise("IsADirectoryError")
    ELSE IF a.dirs = "NAMES"
    THEN get_str_digest(Join(Sorted(listdir(d)), <<"\n">>))
    ELSE IF a.dirs = "APX" THEN Return(None)
    ELSE Return(Zero)

\* getVolumeID(path): runs `diskutil list -plist` and looks for a partition
\* whose mount point is a prefix of path; check_output raises when there is
\* no such program and when it exits with an error, and nothing catches it
getVolumeID(path) ==
    CASE env.diskutil = "missing" -> Raise("FileNotFoundError")
      [] env.diskutil = "fails" -> Raise("CalledProcessError")
      [] env.diskutil = "nomatch" -> Return("None")
      [] OTHER -> Return("VolumeUUID")

-----------------------------------------------------------------------------
(* doOneDir. *)

\* exists that is true of every path
existsAlways(path0) == TRUE

\* the directory a root path names, if it is one
RootDir(path0) == IF path0 = RootPath THEN "D" ELSE NoDir
\* os.path.exists(path0): /D is a directory, /F a regular file, /X nothing
exists(path0) == path0 \in {RootPath, FilePath}

\* st_ino of a directory
DirIno(d) == CASE d = "D" -> 1 [] d = "M" -> 2 [] d = "S" -> 20 [] OTHER -> 24

\* NewFrame that goes straight to the directory's own entries
NewFrameNoDescent(path, d) ==
    [path |-> path, dir |-> d, pc |-> "recurse", todo |-> <<>>,
     ls |-> <<>>, i |-> 0, inode |-> 0, volumeSerialNumber |-> "0",
     totalFiles |-> 0, hiddenFiles |-> 0, backupFiles |-> 0, symlinks |-> 0,
     subdirs |-> 0, fSigs |-> <<>>]

\* the start of a call doOneDir(path): with --recursive, scandir gives the
\* subdirectories (is_dir follows links) that are built first
NewFrame(path, d) ==
    [path |-> path, dir |-> d, pc |-> "recurse",
     todo |-> IF args.recursive
              THEN SelectSeq(listdir(d), LAMBDA f : isdir(Lookup(d, f)))
              ELSE <<>>,
     ls |-> <<>>, i |-> 0, inode |-> 0, volumeSerialNumber |-> "0",
     totalFiles |-> 0, hiddenFiles |-> 0, backupFiles |-> 0, symlinks |-> 0,
     subdirs |-> 0, fSigs |-> <<>>]

\* Classify with the backup test made before the hidden test
ClassifyBackupFirst(a, f, e, fpath) ==
    IF ~a.backupFiles /\ isBackup(fpath) THEN "backup"
    ELSE IF ~a.hiddenFiles /\ f[1] = "." THEN "hidden"
    ELSE IF ismount(e) THEN "mount"
    ELSE IF ~a.links /\ islink(e) THEN "symlink"
    ELSE IF isdir(e) THEN "dir"
    ELSE "file"

\* Classify with the tests in the order hidden, mount, symlink, backup
ClassifySymlinkFirst(a, f, e, fpath) ==
    IF ~a.hiddenFiles /\ f[1] = "." THEN "hidden"
    ELSE IF ismount(e) THEN "mount"
    ELSE IF ~a.links /\ islink(e) THEN "symlink"
    ELSE IF ~a.backupFiles /\ isBackup(fpath) THEN "backup"
    ELSE IF isdir(e) THEN "dir"
    ELSE "file"

\* lines 181-198: what the loop body does with entry e, named f, at fpath;
\* the tests are made in this order and the first that holds decides
Classify(a, f, e, fpath) ==
    IF ~a.hiddenFiles /\ f[1] = "." THEN "hidden"
    ELSE IF ~a.backupFiles /\ isBackup(fpath) THEN "backup"
    ELSE IF ismount(e) THEN "mount"
    ELSE IF ~a.links /\ islink(e) THEN "symlink"
    ELSE IF isdir(e) THEN "dir"
    ELSE "file"

\* Tally with totalFiles counted only after the hidden test
TallyAfterHidden(fr, dec) ==
    [fr EXCEPT !.totalFiles = IF dec = "hidden" THEN @ ELSE @ + 1,
               !.hiddenFiles = IF dec = "hidden" THEN @ + 1 ELSE @,
               !.backupFiles = IF dec = "backup" THEN @ + 1 ELSE @,
               !.symlinks = IF dec = "symlink" THEN @ + 1 ELSE @,
               !.subdirs = IF dec = "dir" THEN @ + 1 ELSE @]

\* Tally that leaves a mount point out of the total
TallyMountUncounted(fr, dec) ==
    [fr EXCEPT !.totalFiles = IF dec = "mount" THEN @ ELSE @ + 1,
               !.hiddenFiles = IF dec = "hidden" THEN @ + 1 ELSE @,
               !.backupFiles = IF dec = "backup" THEN @ + 1 ELSE @,
               !.symlinks = IF dec = "symlink" THEN @ + 1 ELSE @,
               !.subdirs = IF dec = "dir" THEN @ + 1 ELSE @]

\* the counters after an entry with decision dec
Tally(fr, dec) ==
    [fr EXCEPT !.totalFiles = @ + 1,
               !.hiddenFiles = IF dec = "hidden" THEN @ + 1 ELSE @,
               !.backupFiles = IF dec = "backup" THEN @ + 1 ELSE @,
               !.symlinks = IF dec = "symlink" THEN @ + 1 ELSE @,
               !.subdirs = IF dec = "dir" THEN @ + 1 ELSE @]

\* time.ctime(secs), the readable rendering of an epoch time
ctime(secs) == [fmt |-> "ctime", t |-> secs]
epoch(secs) == [fmt |-> "epoch", t |-> secs]

\* lines 199-210: the row of an included entry
Row(a, f, e, dsig) ==
    LET s == stat(e)
        tm == IF a.ctime THEN ctime(ST_MTIME) ELSE epoch(StatField(s, ST_MTIME))
    IN  [tm |-> tm, size |-> StatField(s, ST_SIZE), ino |-> StatField(s, ST_INO),
         name |-> f, sep |-> IF dsig = Zero THEN " " ELSE "\n      ",
         dsig |-> dsig]

\* AddRow putting the new row first
AddRowInFront(fSigs, row) == <<row>> \o fSigs

\* fSigs += row
AddRow(fSigs, row) == Append(fSigs, row)

\* the label row that precedes the rows
LabelRow(a) ==
    [tm |-> "mtime", size |-> "size", ino |-> "ino", name |-> "filename",
     sep |-> IF a.ctime THEN "                " ELSE "", dsig |-> "dsig"]

\* lines 212-236: the text that doOneDir returns
Manifest(a, fr, timeStamp) ==
    [generator |-> "checkSumDirs.py",
     time |-> IF a.ctime THEN ctime(timeStamp) ELSE epoch(timeStamp),
     volumeSerialNumber |-> fr.volumeSerialNumber,
     inode |-> fr.inode, path |-> fr.path,
     totalFiles |-> fr.totalFiles, hiddenFiles |-> fr.hiddenFiles,
     backupFiles |-> fr.backupFiles, symlinks |-> fr.symlinks,
     subdirs |-> fr.subdirs,
     files |-> <<LabelRow(a)>> \o fr.fSigs]

\* the text of a manifest as its sequence of JSON tokens: punctuation,
\* quoted strings ("%s" and "%d" between quotes) and bare numbers (%d)
Tok(t, v) == [t |-> t, v |-> v]
Punct(c) == Tok(c, <<>>)
Str(v) == Tok("str", v)
Num(v) == Tok("num", v)

\* lines 204 and 208: the text of one row; the format of epoch times ends
\* the row with a comma before its closing bracket
RowTokens(a, row) ==
    IF a.ctime
    THEN <<Punct("["), Str(row.tm), Punct(","), Num(row.size), Punct(","),
           Num(row.ino), Punct(","), Str(row.name), Punct(","),
           Str(row.dsig), Punct("]")>>
    ELSE <<Punct("["), Num(row.tm), Punct(","), Num(row.size), Punct(","),
           Num(row.ino), Punct(","), Str(row.name), Punct(","),
           Str(row.dsig), Punct(","), Punct("]")>>

\* fSigs: every row is followed by ",\n"
RECURSIVE SigsTokens(_, _)
SigsTokens(a, rows) ==
    IF rows = <<>> THEN <<>>
    ELSE RowTokens(a, Head(rows)) \o <<Punct(",")>> \o SigsTokens(a, Tail(rows))

\* fSigs[0:-2]: the text without its last two characters, the ",\n" of the
\* last row
DropLast(toks) == SubSeq(toks, 1, Len(toks) - 1)

\* line 229: the label row of the template and the comma that follows it
LabelTokens ==
    <<Punct("["), Str("mtime"), Punct(","), Str("size"), Punct(","),
      Str("ino"), Punct(","), Str("filename"), Punct(","), Str("dsig"),
      Punct(","), Punct("]"), Punct(",")>>

\* lines 217-235: the template, filled in
Encode(a, buf) ==
    <<Punct("{"),
      Str("generator"), Punct(":"), Str(buf.generator), Punct(","),
      Str("time"), Punct(":"), Str(buf.time), Punct(","),
      Str("volumeSerialNumber"), Punct(":"), Str(buf.volumeSerialNumber),
      Punct(","),
      Str("inode"), Punct(":"), Str(buf.inode), Punct(","),
      Str("path"), Punct(":"), Str(buf.path), Punct(","),
      Str("totalFiles"), Punct(":"), Num(buf.totalFiles), Punct(","),
      Str("hiddenFiles"), Punct(":"), Num(buf.hiddenFiles), Punct(","),
      Str("backupFiles"), Punct(":"), Num(buf.backupFiles), Punct(","),
      Str("symlinks"), Punct(":"), Num(buf.symlinks), Punct(","),
      Str("subdirs"), Punct(":"), Num(buf.subdirs), Punct(","),
      Str("files"), Punct(":"), Punct("[")>>
    \o LabelTokens
    \o DropLast(SigsTokens(a, Tail(buf.files)))
    \o <<Punct("]"), Punct("}")>>

\* reading JSON text: a value is a string, a number, an array [v, ..., v]
\* or an object {"k": v, ..., "k": v}; a comma is followed by another item
ParseFail == [ok |-> FALSE, val |-> <<>>, rest |-> <<>>]
ParseOk(v, rest) == [ok |-> TRUE, val |-> v, rest |-> rest]

RECURSIVE ParseValue(_), ParseItems(_, _), ParseMembers(_, _)
ParseValue(toks) ==
    IF Len(toks) = 0 THEN ParseFail
    ELSE IF toks[1].t \in {"str", "num"} THEN ParseOk(toks[1].v, Tail(toks))
    ELSE IF toks[1].t = "["
    THEN IF Len(toks) >= 2 /\ toks[2].t = "]"
         THEN ParseOk(<<>>, SubSeq(toks, 3, Len(toks)))
         ELSE ParseItems(Tail(toks), <<>>)
    ELSE IF toks[1].t = "{"
    THEN IF Len(toks) >= 2 /\ toks[2].t = "}"
         THEN ParseOk(<<>>, SubSeq(toks, 3, Len(toks)))
         ELSE ParseMembers(Tail(toks), <<>>)
    ELSE ParseFail

\* the items of an array, after its "["
ParseItems(toks, acc) ==
    LET v == ParseValue(toks)
    IN  IF ~v.ok \/ Len(v.rest) = 0 THEN ParseFail
        ELSE IF v.rest[1].t = ","
        THEN ParseItems(Tail(v.rest), Append(acc, v.val))
        ELSE IF v.rest[1].t = "]"
        THEN ParseOk(Append(acc, v.val), Tail(v.rest))
        ELSE ParseFail

\* the members of an object, after its "{", as <<key, value>> pairs
ParseMembers(toks, acc) ==
    IF Len(toks) < 3 \/ toks[1].t # "str" \/ toks[2].t # ":" THEN ParseFail
    ELSE LET v == ParseValue(SubSeq(toks, 3, Len(toks)))
             member == <<toks[1].v, v.val>>
         IN  IF ~v.ok \/ Len(v.rest) = 0 THEN ParseFail
             ELSE IF v.rest[1].t = ","
             THEN ParseMembers(Tail(v.rest), Append(acc, member))
             ELSE IF v.rest[1].t = "}"
             THEN ParseOk(Append(acc, member), Tail(v.rest))
             ELSE ParseFail

\* decode(text): the whole text is one JSON value, or the decoding fails
Decode(toks) ==
    LET v == ParseValue(toks)
    IN  IF v.ok /\ Len(v.rest) = 0 THEN Return(v.val)
        ELSE Raise("MalformedManifest")

Top == stack[Len(stack)]
SetTop(fr) == [stack EXCEPT ![Len(stack)] = fr]

Crash(e) ==
    /\ mainpc' = "crashed"
    /\ exc' = e

-----------------------------------------------------------------------------
(* The steps of the program. *)

\* what print() wrote
Printed(kind, val) == [kind |-> kind, val |-> val]

\* whether the utf-8 codec encodes the text of manifest buf: it refuses
\* lone surrogates, which come with the path and the names of the rows
Utf8Encodable(buf) ==
    /\ \A k \in 1..Len(buf.path) : buf.path[k] # Surrogate
    /\ \A n \in 2..Len(buf.files) :
         \A k \in 1..Len(buf.files[n].name) : buf.files[n].name[k] # Surrogate

\* codecs.open(os.path.join(path0, args.outfile), 'wb') alone: the file is
\* created empty, or truncated
OpenOutfile(d, t) ==
    LET l == fs[d]
        k == {j \in 1..Len(l) : l[j].name = args.outfile}
    IN  IF k = {}
        THEN Append(l, Entry(args.outfile, "file", NoDir, 30, t, <<>>))
        ELSE [j \in 1..Len(l) |->
                IF j \in k THEN [l[j] EXCEPT !.data = <<>>, !.mtime = t]
                ELSE l[j]]

\* WriteOutfile that leaves the manifest file as the directory's only entry
WriteOutfileAlone(d, info, t) ==
    <<Entry(args.outfile, "file", NoDir, 30, t, <<info>>)>>

\* the file that codecs.open(os.path.join(path0, args.outfile), 'wb') and
\* write(info) leave in directory d at time t: an existing file is
\* truncated and rewritten, a missing one is created
WriteOutfile(d, info, t) ==
    LET l == fs[d]
        k == {j \in 1..Len(l) : l[j].name = args.outfile}
    IN  IF k = {}
        THEN Append(l, Entry(args.outfile, "file", NoDir, 30, t, <<info>>))
        ELSE [j \in 1..Len(l) |->
                IF j \in k THEN [l[j] EXCEPT !.data = <<info>>, !.mtime = t]
                ELSE l[j]]

\* lines 427-433: the body of the loop over args.files, up to the call
MainStep ==
    /\ mainpc = "main"
    /\ fileIdx <= Len(args.files)
    /\ LET path0 == args.files[fileIdx]
       IN  IF ~exists(path0)
           THEN /\ out' = Append(out, Printed("Not found", path0))
                /\ fileIdx' = fileIdx + 1
                /\ UNCHANGED <<mainpc, stack>>
           ELSE IF RootDir(path0) = NoDir
           THEN /\ out' = Append(out, Printed("Not a directory", path0))
                /\ fileIdx' = fileIdx + 1
                /\ UNCHANGED <<mainpc, stack>>
           ELSE /\ stack' = <<NewFrame(path0, RootDir(path0))>>
                /\ mainpc' = "build"
                /\ UNCHANGED <<out, fileIdx>>
    /\ UNCHANGED <<args, env, fs, returned, digestCalls, exc, now, probe>>

\* lines 423-425 and 441-442: the end of the program
MainDone ==
    /\ mainpc = "main"
    /\ fileIdx > Len(args.files)
    /\ mainpc' = "done"
    /\ out' = IF Len(args.files) = 0 \/ args.quiet THEN out
              ELSE Append(out, Printed("Done.", <<>>))
    /\ UNCHANGED <<args, env, fs, fileIdx, stack, returned, digestCalls, exc,
                   now, probe>>

\* lines 162-163: the recursive call for the next subdirectory
\* the entry of its parent's directory by which the build at stk[k] was
\* entered
EnteredBy(stk, k) ==
    LET parent == stk[k - 1]
    IN  fs[parent.dir][CHOOSE j \in 1..Len(fs[parent.dir]) :
            PathJoin(parent.path, fs[parent.dir][j].name) = stk[k].path]

\* the number of links among the components of the path of the build on top
LinkSteps(stk) == Cardinality({k \in 2..Len(stk) : islink(EnteredBy(stk, k))})

\* whether f.is_dir() of line 161 raises OSError (ELOOP) in directory d that
\* was reached through so many links: it follows the link that f is
TooManyLinks(through, d) ==
    \E j \in 1..Len(fs[d]) : islink(fs[d][j]) /\ through + 1 > MaxLinks

Descend ==
    /\ mainpc = "build"
    /\ stack # <<>>
    /\ Top.pc = "recurse"
    /\ Top.todo # <<>>
    /\ LET f == Head(Top.todo)
           e == Lookup(Top.dir, f)
           through == LinkSteps(stack) + IF islink(e) THEN 1 ELSE 0
       IN  IF TooManyLinks(through, e.target)
           THEN /\ Crash("OSError")
                /\ UNCHANGED stack
           ELSE /\ stack' = Append(SetTop([Top EXCEPT !.todo = Tail(@)]),
                                   NewFrame(PathJoin(Top.path, f), e.target))
                /\ UNCHANGED <<mainpc, exc>>
    /\ UNCHANGED <<args, env, fs, fileIdx, out, returned, digestCalls, now,
                   probe>>

\* lines 165-177: the directory's inode and volume id, the counters, and
\* the listing that the loop goes through
Prologue ==
    /\ mainpc = "build"
    /\ stack # <<>>
    /\ Top.pc = "recurse"
    /\ Top.todo = <<>>
    /\ LET vol == IF ~args.noVolumeID THEN getVolumeID(Top.path)
                  ELSE Return("0")
       IN  IF vol.ok
           THEN /\ stack' = SetTop([Top EXCEPT !.pc = "loop",
                                       !.inode = DirIno(Top.dir),
                                       !.volumeSerialNumber = vol.val,
                                       !.ls = listdir(Top.dir)])
                /\ UNCHANGED <<mainpc, exc>>
           ELSE /\ Crash(vol.val)
                /\ UNCHANGED stack
    /\ UNCHANGED <<args, env, fs, fileIdx, out, returned, digestCalls, now,
                   probe>>

\* lines 177-210: one pass of the loop over the listing
LoopStep ==
    /\ mainpc = "build"
    /\ stack # <<>>
    /\ Top.pc = "loop"
    /\ Top.i < Len(Top.ls)
    /\ LET fr == Top
           f == fr.ls[fr.i + 1]
           e == Lookup(fr.dir, f)
           fpath == PathJoin(fr.path, f)
           dec == Classify(args, f, e, fpath)
           counted == [Tally(fr, dec) EXCEPT !.i = @ + 1]
           dsig == IF dec = "dir" THEN get_dir_digest(args, fr.dir)
                   ELSE get_digest(e)
           shown == IF dec = "dir" THEN f \o <<"/">> ELSE f
       IN  IF f \in { <<".">>, <<".", ".">> }
           THEN /\ stack' = SetTop([fr EXCEPT !.i = @ + 1])
                /\ UNCHANGED <<out, mainpc, exc, digestCalls>>
           ELSE IF dec \in {"hidden", "backup", "symlink"}
           THEN /\ stack' = SetTop(counted)
                /\ UNCHANGED <<out, mainpc, exc, digestCalls>>
           ELSE IF dec = "mount"
           THEN /\ stack' = SetTop(counted)
                /\ out' = Append(out, Printed("Found mount point", f))
                /\ UNCHANGED <<mainpc, exc, digestCalls>>
           ELSE /\ digestCalls' = IF dec = "file"
                                  THEN [digestCalls EXCEPT ![fileIdx] = @ + 1]
                                  ELSE digestCalls
                /\ IF dsig.ok
                   THEN /\ stack' = SetTop([counted EXCEPT !.fSigs =
                                      AddRow(@, Row(args, shown, e, dsig.val))])
                        /\ UNCHANGED <<mainpc, exc>>
                   ELSE /\ Crash(dsig.val)
                        /\ stack' = SetTop(Tally(fr, dec))
                /\ UNCHANGED out
    /\ UNCHANGED <<args, env, fs, fileIdx, returned, now, probe>>

\* lines 212-236 and 433-439: the loop is over, the text is built with the
\* time of the clock and returned; the caller of a recursive call drops it,
\* __main__ writes it to the outfile (--save) or prints it; with --save the
\* file is opened for writing, which empties it, before write() encodes the
\* text, and what write() raises ends the program
ReturnStep ==
    /\ mainpc = "build"
    /\ stack # <<>>
    /\ Top.pc = "loop"
    /\ Top.i = Len(Top.ls)
    /\ \E t \in {now, now + 1} :
        /\ t <= MaxClock
        /\ now' = t
        /\ LET buf == Manifest(args, Top, t)
           IN  /\ returned' = Append(returned,
                                 [idx |-> fileIdx, dir |-> Top.dir,
                                  ls |-> Top.ls, buf |-> buf])
               /\ stack' = SubSeq(stack, 1, Len(stack) - 1)
               /\ IF Len(stack) > 1
                  THEN UNCHANGED <<fs, out, mainpc, fileIdx, exc>>
                  ELSE IF ~args.save
                  THEN /\ out' = Append(out, Printed("manifest", buf))
                       /\ mainpc' = "main"
                       /\ fileIdx' = fileIdx + 1
                       /\ UNCHANGED <<fs, exc>>
                  ELSE IF Utf8Encodable(buf)
                  THEN /\ fs' = [fs EXCEPT ![Top.dir] =
                                    WriteOutfile(Top.dir, buf, t)]
                       /\ mainpc' = "main"
                       /\ fileIdx' = fileIdx + 1
                       /\ UNCHANGED <<out, exc>>
                  ELSE /\ fs' = [fs EXCEPT ![Top.dir] = OpenOutfile(Top.dir, t)]
                       /\ Crash("UnicodeEncodeError")
                       /\ UNCHANGED <<out, fileIdx>>
    /\ UNCHANGED <<args, env, digestCalls, probe>>

-----------------------------------------------------------------------------
(* The pure functions, applied to inputs drawn by the initial state. *)

NoProbe == [fn |-> "none", arg |-> <<>>, done |-> FALSE, res |-> Return(FALSE)]

\* tuple comparison a > b of Python: the first differing item decides
TupleGT(a, b) ==
    \E k \in 1..Len(a) :
        /\ k <= Len(b)
        /\ \A j \in 1..(k - 1) : a[j] = b[j]
        /\ a[k] > b[k]

\* dirAlreadyUpToDate(path): pathIsDir is os.path.isdir(path), hasFile is
\* os.path.exists(theFile), d and s are os.stat(path) and os.stat(theFile);
\* the test compares the two stat results, not dirModTime and ourModTime
dirAlreadyUpToDate(pathIsDir, hasFile, d, s) ==
    LET dirModTime == StatField(d, ST_MTIME)
        ourModTime == StatField(s, ST_MTIME)
    IN  IF ~pathIsDir THEN Raise("ValueError")
        ELSE IF ~hasFile THEN Return(FALSE)
        ELSE IF TupleGT(d, s) THEN Return(FALSE)
        ELSE Return(TRUE)

ApplyUpToDate ==
    /\ probe.fn = "dirAlreadyUpToDate"
    /\ ~probe.done
    /\ probe' = [probe EXCEPT !.done = TRUE,
                    !.res = dirAlreadyUpToDate(probe.arg.pathIsDir,
                               probe.arg.hasFile, probe.arg.d, probe.arg.s)]
    /\ UNCHANGED <<args, env, fs, mainpc, fileIdx, stack, out, returned,
                   digestCalls, exc, now>>

\* lines 178 and 184 of doOneDir: the backup test of the entry called name
\* in the directory whose absolute path is path
BackupTest(path, name) == isBackup(PathJoin(path, name))

ApplyIsBackup ==
    /\ probe.fn = "isBackup"
    /\ ~probe.done
    /\ probe' = [probe EXCEPT !.done = TRUE,
                    !.res = Return(BackupTest(probe.arg.path, probe.arg.name))]
    /\ UNCHANGED <<args, env, fs, mainpc, fileIdx, stack, out, returned,
                   digestCalls, exc, now>>

\* get_digest(path) on a regular file
ApplyGetDigest ==
    /\ probe.fn = "get_digest"
    /\ ~probe.done
    /\ probe' = [probe EXCEPT !.done = TRUE, !.res = get_digest(probe.arg)]
    /\ UNCHANGED <<args, env, fs, mainpc, fileIdx, stack, out, returned,
                   digestCalls, exc, now>>

-----------------------------------------------------------------------------
(* Initial states. *)

Args(h, b, l, r, c, sv, nv, files) ==
    [hiddenFiles |-> h, backupFiles |-> b, links |-> l, recursive |-> r,
     ctime |-> c, save |-> sv, noVolumeID |-> nv, quiet |-> FALSE,
     outfile |-> NameOut, files |-> files]

\* the namespace a, with the attribute `dirs` that get_dir_digest reads
ArgsDirs(a, strategy) ==
    [hiddenFiles |-> a.hiddenFiles, backupFiles |-> a.backupFiles,
     links |-> a.links, recursive |-> a.recursive, ctime |-> a.ctime,
     save |-> a.save, noVolumeID |-> a.noVolumeID, quiet |-> a.quiet,
     outfile |-> a.outfile, files |-> a.files, dirs |-> strategy]

\* the program at its start
AtStart ==
    /\ mainpc = "main"
    /\ fileIdx = 1
    /\ stack = <<>>
    /\ out = <<>>
    /\ returned = <<>>
    /\ digestCalls = [k \in 1..Len(args.files) |-> 0]
    /\ exc = "none"
    /\ now = 0
    /\ probe = NoProbe

Tree(d, s) == [x \in DirIds |-> IF x = "D" THEN d ELSE IF x = "S" THEN s ELSE <<>>]

\* one directory of up to MaxEntries entries of every kind, under every
\* combination of the options that decide what is skipped
InitClassify ==
    /\ \E h, b, l \in BOOLEAN :
         args = Args(h, b, l, FALSE, TRUE, FALSE, TRUE, <<RootPath>>)
    /\ env = [diskutil |-> "missing"]
    /\ \E d \in Listings(RootPool, MaxEntries) :
         DistinctNames(d) /\ fs = Tree(d, <<>>)
    /\ AtStart

\* a directory with subdirectories, with and without --recursive, saved
\* or printed
TreePool == {e \in RootPool : e.name \in {NameA, NameS, NameM}}

InitTree ==
    /\ \E h, l, r, c, sv \in BOOLEAN :
         args = Args(h, FALSE, l, r, c, sv, TRUE, <<RootPath>>)
    /\ env = [diskutil |-> "missing"]
    /\ \E d \in Listings(TreePool, MaxSubEntries + 1),
          s \in Listings(SubPool, MaxSubEntries) :
         /\ DistinctNames(d)
         /\ DistinctNames(s)
         /\ \E k \in 1..Len(d) : d[k].name = NameS
         /\ fs = Tree(d, s)
    /\ AtStart

\* the command line: several roots, existing or not, saved or printed,
\* with the volume id looked up or not
MainPool == {e \in RootPool : e.name \in {NameA, NameHidden} }
Roots == {RootPath, FilePath, MissingPath}

InitMain ==
    /\ \E h, c, sv, nv \in BOOLEAN :
       \E files \in Listings(Roots, MaxSubEntries + 1) :
         args = Args(h, FALSE, FALSE, FALSE, c, sv, nv, files)
    /\ env \in [diskutil : {"missing", "fails", "nomatch", "match"}]
    /\ \E d \in Listings(MainPool, MaxSubEntries) : fs = Tree(d, <<>>)
    /\ AtStart

\* a directory with entries that cannot be opened, links followed or not
InitUnreadable ==
    /\ \E l \in BOOLEAN :
         args = Args(FALSE, FALSE, l, FALSE, TRUE, FALSE, TRUE, <<RootPath>>)
    /\ env = [diskutil |-> "missing"]
    /\ \E d \in Listings(ErrPool, MaxSubEntries + 1) :
         DistinctNames(d) /\ fs = Tree(d, <<>>)
    /\ AtStart

\* the manifest that an earlier run left in the root
PriorFrame ==
    [path |-> RootPath, volumeSerialNumber |-> "0", inode |-> 1,
     totalFiles |-> 0, hiddenFiles |-> 0, backupFiles |-> 0, symlinks |-> 0,
     subdirs |-> 0, fSigs |-> <<>>]
PriorManifest == Manifest([ctime |-> TRUE], PriorFrame, 0)

SavePool == {
    Entry(NameA, "file", NoDir, 11, 1, <<"x">>),
    Entry(NameBad, "file", NoDir, 19, 1, <<"y">>),
    Entry(NameOut, "file", NoDir, 30, 0, <<PriorManifest>>) }

\* a run with --save on a root that may hold an earlier manifest file and
\* a file whose name is no UTF-8
InitSave ==
    /\ \E h \in BOOLEAN :
         args = Args(h, FALSE, FALSE, FALSE, TRUE, TRUE, TRUE, <<RootPath>>)
    /\ env = [diskutil |-> "missing"]
    /\ \E d \in Listings(SavePool, MaxSubEntries + 1) :
         DistinctNames(d) /\ fs = Tree(d, <<>>)
    /\ AtStart

\* a tree with a link to an ancestor: /D/S/up is a link to /D
CyclePool == {
    Entry(NameC, "file", NoDir, 21, 1, <<"x">>),
    Entry(NameUp, "linkd", "D", 1, 1, <<>>) }

\* --recursive, links not followed, on a tree that may hold such a link
InitCycle ==
    /\ \E sv \in BOOLEAN :
         args = Args(FALSE, FALSE, FALSE, TRUE, TRUE, sv, TRUE, <<RootPath>>)
    /\ env = [diskutil |-> "missing"]
    /\ \E d \in Listings({e \in TreePool : e.kind \in {"file", "dir"}},
                         MaxSubEntries + 1),
          s \in Listings(CyclePool, MaxSubEntries + 1) :
         /\ DistinctNames(d)
         /\ DistinctNames(s)
         /\ \E k \in 1..Len(s) : s[k].name = NameUp
         /\ fs = Tree(d, s)
    /\ AtStart

Init ==
    InitClassify \/ InitTree \/ InitMain \/ InitUnreadable \/ InitSave
    \/ InitCycle

Next == MainStep \/ MainDone \/ Descend \/ Prologue \/ LoopStep \/ ReturnStep

Spec == Init /\ [][Next]_vars

\* the program under each strategy that get_dir_digest knows, as an option
\* setting args.dirs would choose it (processOptions defines none, so the
\* program as it stands runs without the attribute: see Init)
Strategies == {"SELF", "NAMES", "APX", "NONE"}

InitDirs ==
    /\ \E strategy \in Strategies, r, sv \in BOOLEAN :
       \E files \in { <<RootPath>>, <<RootPath, RootPath>> } :
         args = ArgsDirs(Args(FALSE, FALSE, FALSE, r, TRUE, sv, TRUE, files),
                         strategy)
    /\ env = [diskutil |-> "missing"]
    /\ \E d \in Listings(TreePool, MaxSubEntries + 1),
          s \in Listings(SubPool, MaxSubEntries) :
         /\ DistinctNames(d)
         /\ DistinctNames(s)
         /\ fs = Tree(d, s)
    /\ AtStart

SpecDirs == InitDirs /\ [][Next]_vars

\* dirAlreadyUpToDate on every pair of stat results of the bounded sets
Idle ==
    /\ args = Args(FALSE, FALSE, FALSE, FALSE, FALSE, FALSE, TRUE, <<>>)
    /\ env = [diskutil |-> "missing"]
    /\ fs = Tree(<<>>, <<>>)
    /\ mainpc = "idle"
    /\ fileIdx = 1
    /\ stack = <<>>
    /\ out = <<>>
    /\ returned = <<>>
    /\ digestCalls = <<>>
    /\ exc = "none"
    /\ now = 0

InitFresh ==
    /\ Idle
    /\ \E isd, hf \in BOOLEAN :
       \E dmode \in DirModes, dino \in {1, 40}, dm, sm \in 0..MaxTime :
       \E smode \in FileModes, sino \in {30, 50}, ssize \in {0, 96} :
         probe = [fn |-> "dirAlreadyUpToDate",
                  arg |-> [pathIsDir |-> isd, hasFile |-> hf,
                           d |-> StatResult(dmode, dino, 96, dm),
                           s |-> StatResult(smode, sino, ssize, sm)],
                  done |-> FALSE, res |-> Return(FALSE)]

NextFresh == ApplyUpToDate

SpecFresh == InitFresh /\ [][NextFresh]_vars

\* the backup test on names put together from a prefix, a stem, an
\* extension and a suffix, in several directories
Prefixes == { <<>>, <<"~">>, <<"#">>, <<".">> }
Stems == { <<"a">>, <<"c","o","p","y">>, <<"b","a","c","k","u","p">>,
           <<"c","o","p","y"," ","2">>, <<"b","a","c","k","u","p"," ","1","2">>,
           <<"a"," ","c","o","p","y">>, <<"c","o","p","y","x">>,
           <<"c","o","p","y"," ","2","x">> }
Exts == { <<>>, <<".","b","a","k">>, <<".","b","k","u","p">>,
          <<".","t","m","p">>, <<".","t","x","t">> }
Suffixes == { <<>>, <<"~">>, <<"#">> }
ProbeNames == { p \o st \o x \o sf :
                  p \in Prefixes, st \in Stems, x \in Exts, sf \in Suffixes }
ProbeDirs == { <<"/">>, RootPath, <<"/","c","o","p","y">>, <<"/","D","/","x","~">> }

InitBackup ==
    /\ Idle
    /\ \E path \in ProbeDirs, name \in ProbeNames :
         probe = [fn |-> "isBackup", arg |-> [path |-> path, name |-> name],
                  done |-> FALSE, res |-> Return(FALSE)]

NextBackup == ApplyIsBackup

SpecBackup == InitBackup /\ [][NextBackup]_vars

\* get_digest on files of every length up to MaxFileLen, whose bytes all
\* differ from their neighbours: byte k of the file is (k + off) % 256
FileBytes(len, off) == [k \in 1..len |-> (k + off) % 256]

InitDigest ==
    /\ Idle
    /\ \E len \in 0..MaxFileLen, off \in {0, 7} :
         probe = [fn |-> "get_digest",
                  arg |-> Entry(NameA, "file", NoDir, 11, 1, FileBytes(len, off)),
                  done |-> FALSE, res |-> Return(FALSE)]

NextDigest == ApplyGetDigest

SpecDigest == InitDigest /\ [][NextDigest]_vars

\* The loop body of doOneDir beside another process: the digest of line 198
\* and os.stat of line 199 are two system calls on the path, and the other
\* process may act before, between and after them. probe holds the body's
\* locals f and dsig between the two calls, whether the other process has
\* acted, and the states that the files have had.
RacePool == {e \in RootPool : e.kind = "file" /\ e.name \in {NameA, NameBak}}

InitRace ==
    /\ \E sv \in BOOLEAN :
         args = Args(FALSE, FALSE, FALSE, FALSE, FALSE, sv, TRUE, <<RootPath>>)
    /\ env = [diskutil |-> "missing"]
    /\ \E d \in Listings(RacePool, MaxSubEntries + 1) :
         /\ DistinctNames(d)
         /\ fs = Tree(d, <<>>)
         /\ probe = [fn |-> "doOneDir", pending |-> FALSE, shown |-> <<>>,
                     dsig |-> None, raced |-> FALSE,
                     states |-> {d[k] : k \in 1..Len(d)}]
    /\ mainpc = "main"
    /\ fileIdx = 1
    /\ stack = <<>>
    /\ out = <<>>
    /\ returned = <<>>
    /\ digestCalls = <<0>>
    /\ exc = "none"
    /\ now = 0

\* lines 178-198 for the next name of the listing: an entry that is
\* skipped or diagnosed is done with; for the others the digest is taken
HashStep ==
    /\ mainpc = "build"
    /\ stack # <<>>
    /\ Top.pc = "loop"
    /\ Top.i < Len(Top.ls)
    /\ ~probe.pending
    /\ LET fr == Top
           f == fr.ls[fr.i + 1]
           e == Lookup(fr.dir, f)
           dec == Classify(args, f, e, PathJoin(fr.path, f))
           dsig == IF dec = "dir" THEN get_dir_digest(args, fr.dir)
                   ELSE get_digest(e)
       IN  IF f \in { <<".">>, <<".", ".">> } \/ dec \notin {"dir", "file"}
           THEN LoopStep
           ELSE /\ digestCalls' = IF dec = "file"
                                  THEN [digestCalls EXCEPT ![fileIdx] = @ + 1]
                                  ELSE digestCalls
                /\ stack' = SetTop(Tally(fr, dec))
                /\ IF dsig.ok
                   THEN /\ probe' = [probe EXCEPT
                               !.pending = TRUE,
                               !.shown = IF dec = "dir" THEN f \o <<"/">>
                                         ELSE f,
                               !.dsig = dsig.val]
                        /\ UNCHANGED <<mainpc, exc>>
                   ELSE /\ Crash(dsig.val)
                        /\ UNCHANGED probe
                /\ UNCHANGED <<args, env, fs, fileIdx, out, returned, now>>

\* lines 199-210: os.stat of the path, which raises for a path that is no
\* more, and the row
StatStep ==
    /\ mainpc = "build"
    /\ stack # <<>>
    /\ Top.pc = "loop"
    /\ probe.pending
    /\ LET fr == Top
           e == Lookup(fr.dir, fr.ls[fr.i + 1])
       IN  IF e.kind = "gone"
           THEN /\ Crash("FileNotFoundError")
                /\ UNCHANGED stack
           ELSE /\ stack' = SetTop([fr EXCEPT
                               !.i = @ + 1,
                               !.fSigs = AddRow(@, Row(args, probe.shown, e,
                                                       probe.dsig))])
                /\ UNCHANGED <<mainpc, exc>>
    /\ probe' = [probe EXCEPT !.pending = FALSE]
    /\ UNCHANGED <<args, env, fs, fileIdx, out, returned, digestCalls, now>>

\* what another process makes of entry e: more bytes written to the file,
\* another file moved over it, or the file removed
Changed(e, how) ==
    CASE how = "modify" -> [e EXCEPT !.data = @ \o <<"z">>, !.mtime = MaxTime]
      [] how = "replace" -> [e EXCEPT !.ino = 31, !.data = <<"z", "z", "z">>,
                                      !.mtime = MaxTime]
      [] OTHER -> [e EXCEPT !.kind = "gone"]

\* the other process acts on an entry of the root, once, at any moment of
\* the build's loop
Intervene ==
    /\ mainpc = "build"
    /\ stack # <<>>
    /\ Top.pc = "loop"
    /\ ~probe.raced
    /\ \E j \in 1..Len(fs["D"]), how \in {"modify", "replace", "remove"} :
         LET e == Changed(fs["D"][j], how)
         IN  /\ fs' = [fs EXCEPT !["D"][j] = e]
             /\ probe' = [probe EXCEPT
                    !.raced = TRUE,
                    !.states = IF how = "remove" THEN @ ELSE @ \cup {e}]
    /\ UNCHANGED <<args, env, mainpc, fileIdx, stack, out, returned,
                   digestCalls, exc, now>>

NextRace ==
    \/ MainStep
    \/ MainDone
    \/ Prologue
    \/ HashStep
    \/ Intervene
    \/ StatStep
    \/ ReturnStep

SpecRace == InitRace /\ [][NextRace]_vars

-----------------------------------------------------------------------------
(* Properties. *)

\* the activations that are going through their listing
LoopFrames ==
    IF mainpc = "build"
    THEN {stack[k] : k \in {j \in 1..Len(stack) : stack[j].pc = "loop"}}
    ELSE {}

\* the entry that activation fr met at position j of its listing
EntryAt(fr, j) == Lookup(fr.dir, fr.ls[j])
IsDotName(f) == f[1] = "."
RowNames(rows) == [k \in 1..Len(rows) |-> rows[k].name]
Manifests == {returned[k] : k \in 1..Len(returned)}

\* the backup heuristic as the specification words it, on a base name:
\* starts or ends with ~ or #, or has extension bak, bkup or tmp, or the
\* stem holds backup or copy between word boundaries
ClaimedStem(name) ==
    IF RFind(name, ".") > 0 THEN Slice(name, 0, RFind(name, ".")) ELSE name
ClaimedExt(name) ==
    IF RFind(name, ".") > 0 THEN Slice(name, RFind(name, ".") + 1, Len(name))
    ELSE <<>>
ClaimedBackup(name) ==
    \/ name[1] \in {"~", "#"}
    \/ name[Len(name)] \in {"~", "#"}
    \/ ClaimedExt(name) \in BackupExts
    \/ \E w \in Keywords, k \in 0..Len(name) :
         LET st == ClaimedStem(name)
         IN  /\ k + Len(w) <= Len(st)
             /\ Slice(st, k, k + Len(w)) = w
             /\ (k = 0 \/ st[k] \notin WordChars)
             /\ (k + Len(w) = Len(st) \/ st[k + Len(w) + 1] \notin WordChars)

\* C1: for a directory whose children are all regular files, built with
\* includeHidden=false and includeBackups=false, totalEntries is the number
\* of children, hiddenSkipped the number of names beginning with '.',
\* backupSkipped the number of non-hidden names matching the backup
\* heuristic, symlinksSkipped and subdirCount are 0, and there is exactly
\* one row per remaining file, carrying the SHA-256 of its content
C1_FlatDirectoryCounts ==
    \A r \in Manifests :
        LET all == 1..Len(r.ls)
            hid == {j \in all : IsDotName(r.ls[j])}
            bak == {j \in all \ hid : ClaimedBackup(r.ls[j])}
            kept == SelectSeq(r.ls, LAMBDA f :
                        ~IsDotName(f) /\ ~ClaimedBackup(f))
            rows == Tail(r.buf.files)
        IN  (/\ ~args.hiddenFiles
             /\ ~args.backupFiles
             /\ \A j \in all : Lookup(r.dir, r.ls[j]).kind = "file")
            => /\ r.buf.totalFiles = Len(r.ls)
               /\ r.buf.hiddenFiles = Cardinality(hid)
               /\ r.buf.backupFiles = Cardinality(bak)
               /\ r.buf.symlinks = 0
               /\ r.buf.subdirs = 0
               /\ RowNames(rows) = kept
               /\ \A k \in 1..Len(rows) :
                    rows[k].dsig = Sha256Hex(Lookup(r.dir, rows[k].name).data)

\* C2: with includeHidden=false every entry whose name begins with '.' is
\* counted as hiddenSkipped, never as backupSkipped or symlinksSkipped,
\* whatever else is true of it, and no row is emitted for it
C2_HiddenFirst ==
    \A fr \in LoopFrames :
        LET done == 1..fr.i
            dot == {j \in done : IsDotName(fr.ls[j])}
        IN  ~args.hiddenFiles
            => /\ fr.hiddenFiles = Cardinality(dot)
               /\ fr.backupFiles <= Cardinality({j \in done \ dot :
                        BackupTest(fr.path, fr.ls[j])})
               /\ fr.symlinks <= Cardinality({j \in done \ dot :
                        islink(EntryAt(fr, j))})
               /\ \A k \in 1..Len(fr.fSigs) : ~IsDotName(fr.fSigs[k].name)

\* a hidden symbolic link whose name passes the backup test was processed
\* with none of the three kinds included
C2_Witness ==
    /\ ~args.hiddenFiles /\ ~args.backupFiles /\ ~args.links
    /\ \E fr \in LoopFrames : \E j \in 1..fr.i :
         /\ fr.ls[j] = NameHiddenTilde
         /\ islink(EntryAt(fr, j))
         /\ fr.hiddenFiles >= 1

\* whether activation fr skipped the entry at j as hidden, as a backup
SkippedHidden(fr, j) == ~args.hiddenFiles /\ IsDotName(fr.ls[j])
SkippedBackup(fr, j) ==
    ~SkippedHidden(fr, j) /\ ~args.backupFiles /\ BackupTest(fr.path, fr.ls[j])

\* C3 as stated: the rules are applied in the order hidden, mount point,
\* symlink, backup, so that every non-hidden symbolic link that is no mount
\* point is counted in symlinksSkipped when links are not followed, also
\* when its name matches the backup heuristic
C3_SymlinkBeforeBackup ==
    \A fr \in LoopFrames :
        ~args.links
        => fr.symlinks = Cardinality({j \in 1..fr.i :
                /\ ~SkippedHidden(fr, j)
                /\ ~ismount(EntryAt(fr, j))
                /\ islink(EntryAt(fr, j))})

\* C3 amended: the rules are applied in the order hidden, backup, mount
\* point, symlink (first match wins): a non-hidden symbolic link that
\* passes the backup test with includeBackups=false is counted in
\* backupSkipped and not in symlinksSkipped
C3_BackupBeforeSymlink ==
    \A fr \in LoopFrames :
        /\ fr.backupFiles = Cardinality({j \in 1..fr.i : SkippedBackup(fr, j)})
        /\ fr.symlinks = Cardinality({j \in 1..fr.i :
                /\ ~SkippedHidden(fr, j)
                /\ ~SkippedBackup(fr, j)
                /\ ~ismount(EntryAt(fr, j))
                /\ ~args.links
                /\ islink(EntryAt(fr, j))})

\* a non-hidden symbolic link named x~ was processed with links not
\* followed and backups not included
C3_Witness ==
    /\ ~args.links /\ ~args.backupFiles
    /\ \E fr \in LoopFrames : \E j \in 1..fr.i :
         /\ fr.ls[j] = NameTilde
         /\ islink(EntryAt(fr, j))
         /\ fr.backupFiles >= 1

\* C4: the backup test that build applies to an entry is true iff the base
\* name starts or ends with ~ or #, or has extension bak, bkup or tmp, or
\* its stem matches backup or copy at word boundaries; it is false for
\* every other name, whatever the directory
C4_BackupHeuristic ==
    (probe.fn = "isBackup" /\ probe.done)
    => probe.res.val = ClaimedBackup(probe.arg.name)

\* C5: every non-hidden entry that is a mount point is skipped with a
\* diagnostic that names it, under every combination of options and
\* whatever its name
C5_MountDiagnosed ==
    \A fr \in LoopFrames : \A j \in 1..fr.i :
        (~IsDotName(fr.ls[j]) /\ ismount(EntryAt(fr, j)))
        => /\ \E k \in 1..Len(out) :
                out[k] = Printed("Found mount point", fr.ls[j])
           /\ \A k \in 1..Len(fr.fSigs) : fr.fSigs[k].name # fr.ls[j]

\* C6: the five counts are non-negative and totalEntries is at least the
\* sum of the other four, in every manifest and at every point of a build
CountsOk(c) ==
    /\ c.totalFiles >= 0 /\ c.hiddenFiles >= 0 /\ c.backupFiles >= 0
    /\ c.symlinks >= 0 /\ c.subdirs >= 0
    /\ c.totalFiles >= c.hiddenFiles + c.backupFiles + c.symlinks + c.subdirs

C6_CountsInvariant ==
    /\ \A r \in Manifests : CountsOk(r.buf)
    /\ \A k \in 1..Len(stack) : CountsOk(stack[k])

\* a manifest of a directory in which a hidden entry, a backup and a
\* symbolic link were skipped
C6_Witness ==
    \E r \in Manifests :
        /\ r.buf.hiddenFiles >= 1 /\ r.buf.backupFiles >= 1
        /\ r.buf.symlinks >= 1
        /\ r.buf.totalFiles = r.buf.hiddenFiles + r.buf.backupFiles
                                + r.buf.symlinks

\* whether the build of directory d, path p, emits a row for the name f
Included(d, p, f) ==
    Classify(args, f, Lookup(d, f), PathJoin(p, f)) \in {"file", "dir"}

\* C7: the entry list of a manifest is the label row followed by exactly
\* one row per included child, in the order of the directory listing
C7_ListingOrder ==
    \A r \in Manifests :
        /\ r.buf.files[1] = LabelRow(args)
        /\ RowNames(Tail(r.buf.files)) =
              SelectSeq(r.ls, LAMBDA f : Included(r.dir, r.buf.path, f))

\* a manifest with two rows, of a directory with a skipped entry as well
C7_Witness ==
    \E r \in Manifests :
        /\ Len(r.buf.files) >= 3
        /\ Len(r.ls) >= Len(r.buf.files)

\* C8: with --recursive, an activation goes through its own listing only
\* when it is the innermost one, has no subdirectory left to build, and
\* the build of every immediate subdirectory has returned
C8_BottomUp ==
    args.recursive
    => \A k \in 1..Len(stack) :
         stack[k].pc = "loop"
         => /\ k = Len(stack)
            /\ stack[k].todo = <<>>
            /\ \A j \in 1..Len(fs[stack[k].dir]) :
                 isdir(fs[stack[k].dir][j])
                 => \E r \in Manifests :
                      /\ r.idx = fileIdx
                      /\ r.buf.path = PathJoin(stack[k].path,
                                               fs[stack[k].dir][j].name)

\* the root is going through its listing after the build of its
\* subdirectory S, which holds an entry, has returned
C8_Witness ==
    /\ args.recursive
    /\ Len(stack) = 1
    /\ stack[1].pc = "loop"
    /\ stack[1].i >= 1
    /\ \E r \in Manifests :
         r.buf.path = PathJoin(RootPath, NameS) /\ r.buf.totalFiles >= 1

\* C9: a second build of an unchanged directory whose manifest was saved
\* by the first build, which digested its files, calls get_digest zero
\* times and leaves the manifest as it was
C9_ReuseFresh ==
    (/\ args.save
     /\ args.files = <<RootPath, RootPath>>
     /\ fileIdx = 3
     /\ digestCalls[1] >= 1)
    => /\ digestCalls[2] = 0
       /\ returned[2].buf = returned[1].buf

\* C10: dirAlreadyUpToDate is false when the directory holds no manifest
\* file, and otherwise true iff the manifest file's modification time is
\* at least the directory's
C10_FreshIffNewer ==
    (/\ probe.fn = "dirAlreadyUpToDate"
     /\ probe.done
     /\ probe.arg.pathIsDir)
    => probe.res.val =
         (/\ probe.arg.hasFile
          /\ StatField(probe.arg.s, ST_MTIME) >= StatField(probe.arg.d, ST_MTIME))

\* C11: get_digest of a file is the SHA-256 of the file's whole byte
\* sequence, for every length: zero, below, at and above the chunk size,
\* a multiple of it or not; no byte is dropped, repeated or moved
C11_WholeFileDigest ==
    (probe.fn = "get_digest" /\ probe.done)
    => /\ probe.res.ok
       /\ probe.res.val = Sha256Hex(probe.arg.data)

\* a file of more than one chunk whose length is no multiple of the chunk
\* size was digested
C11_Witness ==
    /\ probe.fn = "get_digest"
    /\ probe.done
    /\ Len(probe.arg.data) > BlockSize
    /\ Len(probe.arg.data) % BlockSize # 0

\* whether open() refuses the entry
Unreadable(e) == e.kind \in {"noperm", "dangling", "gone"}

\* C12: an included file that cannot be opened or read does not end the
\* build: the loop goes on with the next entry, the entry gets no row and a
\* diagnostic names it, and the directory's manifest is still returned
C12_UnreadableSkipped ==
    \A k \in 1..Len(stack) :
        LET fr == stack[k]
        IN  fr.pc = "loop"
            => /\ (mainpc = "crashed" /\ k = Len(stack) /\ fr.i < Len(fr.ls))
                  => ~(/\ Unreadable(EntryAt(fr, fr.i + 1))
                       /\ Included(fr.dir, fr.path, fr.ls[fr.i + 1]))
               /\ \A j \in 1..fr.i :
                    (/\ Unreadable(EntryAt(fr, j))
                     /\ Included(fr.dir, fr.path, fr.ls[j]))
                    => /\ \A n \in 1..Len(fr.fSigs) :
                            fr.fSigs[n].name # fr.ls[j]
                       /\ \E n \in 1..Len(out) :
                            out[n] = Printed("Unreadable", fr.ls[j])

\* the messages printed about the root path p
Reports(p) ==
    {out[n].kind : n \in {j \in 1..Len(out) :
                            out[j].kind # "manifest" /\ out[j].val = p}}

\* C13: for a root argument that does not exist or is no directory, no
\* manifest is built, printed or saved, and the two cases are reported by
\* different messages; doOneDir is called only on roots that exist and are
\* directories
C13_BadRootsRejected ==
    /\ \A k \in 1..Len(args.files) :
         LET p == args.files[k]
         IN  /\ (k < fileIdx /\ p = MissingPath) => Reports(p) = {"Not found"}
             /\ (k < fileIdx /\ p = FilePath) => Reports(p) = {"Not a directory"}
             /\ p # RootPath => \A r \in Manifests : r.idx # k
    /\ \A r \in Manifests : args.files[r.idx] = RootPath
    /\ \A k \in 1..Len(stack) : StartsWith(stack[k].path, RootPath)
    /\ stack # <<>> => args.files[fileIdx] = RootPath
    /\ \A n \in 1..Len(out) :
         out[n].kind = "manifest"
         => \E r \in Manifests : r.buf = out[n].val /\ r.dir = "D"

\* a missing root and a root that is a regular file were both gone through
C13_Witness ==
    /\ args.files = <<MissingPath, FilePath>>
    /\ fileIdx = 3
    /\ Len(out) >= 2

\* C14: when the volume id cannot be determined (no diskutil, diskutil
\* fails, no partition matches the path) the build still completes and the
\* manifest carries a placeholder volume id
C14_VolumeIdNeverFatal ==
    (~args.noVolumeID /\ env.diskutil \in {"missing", "fails", "nomatch"})
    => /\ ~(mainpc = "crashed" /\ stack # <<>> /\ Top.pc = "recurse")
       /\ \A r \in Manifests :
            r.buf.volumeSerialNumber \in {"0", "unknown", "None"}

\* the entries of a listing other than the manifest file
Others(l) == SelectSeq(l, LAMBDA e : e.name # args.outfile)
SameEntry(e1, e2) ==
    /\ e1.name = e2.name
    /\ e1.kind = e2.kind /\ e1.target = e2.target
    /\ e1.ino = e2.ino /\ e1.mtime = e2.mtime
    /\ e1.data = e2.data
SameListing(l1, l2) ==
    /\ Len(l1) = Len(l2)
    /\ \A k \in 1..Len(l1) : SameEntry(l1[k], l2[k])

\* C15: no step of a build, recursive calls included, creates, deletes,
\* renames or writes a file or directory; the only write of a run is that of
\* the root's manifest file when the root's build has returned, and only
\* with --save
C15_OnlyRootManifestWritten ==
    [][\A d \in DirIds :
         /\ SameListing(Others(fs'[d]), Others(fs[d]))
         /\ ~SameListing(fs'[d], fs[d])
            => /\ args.save
               /\ mainpc = "build" /\ mainpc' # "build"
               /\ Len(stack) = 1
               /\ d = stack[1].dir
               /\ stack[1].path = args.files[fileIdx]]_vars

\* a recursive build with --save is over: the build of S returned, the root
\* holds the manifest file and S holds none
C15_Witness ==
    /\ args.save /\ args.recursive
    /\ mainpc = "main" /\ fileIdx = 2
    /\ \E r \in Manifests : r.dir = "S"
    /\ \E k \in 1..Len(fs["D"]) : fs["D"][k].name = args.outfile
    /\ \A k \in 1..Len(fs["S"]) : fs["S"][k].name # args.outfile

\* the fields of a manifest as the members of its JSON object
RowValues(row) == <<row.tm, row.size, row.ino, row.name, row.dsig>>
ManifestFields(buf) ==
    << <<"generator", buf.generator>>, <<"time", buf.time>>,
       <<"volumeSerialNumber", buf.volumeSerialNumber>>,
       <<"inode", buf.inode>>, <<"path", buf.path>>,
       <<"totalFiles", buf.totalFiles>>, <<"hiddenFiles", buf.hiddenFiles>>,
       <<"backupFiles", buf.backupFiles>>, <<"symlinks", buf.symlinks>>,
       <<"subdirs", buf.subdirs>>,
       <<"files", [k \in 1..Len(buf.files) |-> RowValues(buf.files[k])]>> >>

\* C16: the text that a build emits decodes back to the manifest it was
\* made from, field for field: path, identities, counts and entry rows
C16_RoundTrip ==
    \A r \in Manifests :
        LET m == Decode(Encode(args, r.buf))
        IN  /\ m.ok
            /\ m.val = ManifestFields(r.buf)

\* what the loop of activation fr decides for the entry at j of its listing
Decision(fr, j) ==
    Classify(args, fr.ls[j], EntryAt(fr, j), PathJoin(fr.path, fr.ls[j]))

\* C17: with no directory-digest option given (strategy NONE), the build
\* of a directory that holds an included subdirectory completes, and the
\* subdirectory gets a row that carries the no-digest value
C17_DefaultNoDigest ==
    \A k \in 1..Len(stack) :
        LET fr == stack[k]
        IN  fr.pc = "loop"
            => /\ (mainpc = "crashed" /\ k = Len(stack) /\ fr.i < Len(fr.ls))
                  => Decision(fr, fr.i + 1) # "dir"
               /\ \A j \in 1..fr.i :
                    Decision(fr, j) = "dir"
                    => \E n \in 1..Len(fr.fSigs) :
                         /\ fr.fSigs[n].name = fr.ls[j] \o <<"/">>
                         /\ fr.fSigs[n].dsig = Zero

\* the names of the children of directory d, path p, that a build includes
EligibleNames(d, p) == SelectSeq(listdir(d), LAMBDA f : Included(d, p, f))

\* the digest that strategy NAMES is to give the subdirectory at j of the
\* listing of activation fr
NamesDigest(fr, j) ==
    Sha256Hex(Join(Sorted(EligibleNames(EntryAt(fr, j).target,
                                        PathJoin(fr.path, fr.ls[j]))),
                   <<"\n">>))

\* C18: under strategy NAMES the row of a subdirectory S of D carries the
\* hash of the sorted, newline-joined names of the children of S that a
\* build includes: S's children and not D's, without those the classifier
\* skips, whatever the order of the listing
C18_NamesDigest ==
    args.dirs = "NAMES"
    => \A k \in 1..Len(stack) :
        LET fr == stack[k]
        IN  fr.pc = "loop"
            => /\ (mainpc = "crashed" /\ k = Len(stack) /\ fr.i < Len(fr.ls))
                  => Decision(fr, fr.i + 1) # "dir"
               /\ \A j \in 1..fr.i :
                    Decision(fr, j) = "dir"
                    => \E n \in 1..Len(fr.fSigs) :
                         /\ fr.fSigs[n].name = fr.ls[j] \o <<"/">>
                         /\ fr.fSigs[n].dsig = NamesDigest(fr, j)

\* the digest in the row of subdirectory S in the manifest of the kth root
RowDigests(k) ==
    {r.buf.files[n].dsig :
        r \in {x \in Manifests : x.idx = k /\ x.dir = "D"},
        n \in {j \in 2..5 : \E x \in Manifests :
                  /\ x.idx = k /\ x.dir = "D"
                  /\ j <= Len(x.buf.files)
                  /\ x.buf.files[j].name = NameS \o <<"/">>}}

\* C19: with strategy NAMES and --recursive, two builds of a directory D
\* that holds a subdirectory S, nothing changing in between, both complete
\* and give S's row the same digest
C19_NamesTwice ==
    (/\ args.dirs = "NAMES"
     /\ args.recursive
     /\ ~args.save
     /\ args.files = <<RootPath, RootPath>>
     /\ \E k \in 1..Len(fs["D"]) :
          fs["D"][k].name = NameS /\ fs["D"][k].kind = "dir")
    => /\ mainpc # "crashed"
       /\ fileIdx = 3
          => /\ Cardinality(RowDigests(1)) = 1
             /\ RowDigests(2) = RowDigests(1)

\* the manifest file in directory d, if there is one
ManifestFiles(d) ==
    {fs[d][k] : k \in {j \in 1..Len(fs[d]) : fs[d][j].name = args.outfile}}

\* C20: under strategy SELF with --recursive, when a build is about to
\* compute the digest for subdirectory S, the manifest file of S is on disk
\* and is no older than S, and the digest that S's row gets is the hash of
\* that file's bytes
C20_SelfDigestsFreshManifest ==
    (args.dirs = "SELF" /\ args.recursive)
    => \A k \in 1..Len(stack) :
        LET fr == stack[k]
        IN  fr.pc = "loop"
            => /\ (k = Len(stack) /\ fr.i < Len(fr.ls)
                     /\ Decision(fr, fr.i + 1) = "dir")
                  => /\ mainpc # "crashed"
                     /\ \E mf \in ManifestFiles(EntryAt(fr, fr.i + 1).target) :
                          mf.mtime >= EntryAt(fr, fr.i + 1).mtime
               /\ \A j \in 1..fr.i :
                    Decision(fr, j) = "dir"
                    => \E n \in 1..Len(fr.fSigs) :
                       \E mf \in ManifestFiles(EntryAt(fr, j).target) :
                         /\ fr.fSigs[n].name = fr.ls[j] \o <<"/">>
                         /\ fr.fSigs[n].dsig = Sha256Hex(mf.data)

\* the digest that strategy APX is to give the subdirectory at j of the
\* listing of activation fr: the hash of its children's names, sorted, each
\* with its modification time and size
ApxDigest(fr, j) ==
    LET d == EntryAt(fr, j).target
        names == Sorted(listdir(d))
    IN  Sha256Hex([k \in 1..Len(names) |->
            <<names[k], StatField(stat(Lookup(d, names[k])), ST_MTIME),
              StatField(stat(Lookup(d, names[k])), ST_SIZE)>>])

\* C21: under strategy APX the row of a subdirectory carries the hash of
\* the sorted list of its children's names, each paired with modification
\* time and size, so that a change of a child's size or time changes it
C21_ApproxDigest ==
    args.dirs = "APX"
    => \A k \in 1..Len(stack) :
        LET fr == stack[k]
        IN  fr.pc = "loop"
            => \A j \in 1..fr.i :
                 Decision(fr, j) = "dir"
                 => \E n \in 1..Len(fr.fSigs) :
                      /\ fr.fSigs[n].name = fr.ls[j] \o <<"/">>
                      /\ fr.fSigs[n].dsig.kind = "sha256"
                      /\ fr.fSigs[n].dsig = ApxDigest(fr, j)

\* the name of a row without the mark of a directory
BaseName(f) == IF f[Len(f)] = "/" THEN SubSeq(f, 1, Len(f) - 1) ELSE f

\* C22: the time written in a row denotes the modification time of the
\* row's own entry, in the readable rendering as in the epoch rendering
C22_SameInstant ==
    \A fr \in LoopFrames : \A n \in 1..Len(fr.fSigs) :
        fr.fSigs[n].tm.t =
            StatField(stat(Lookup(fr.dir, BaseName(fr.fSigs[n].name))), ST_MTIME)

\* the entry that row n of activation fr was made for
RowEntry(fr, n) == Lookup(fr.dir, BaseName(fr.fSigs[n].name))

\* C23 as stated: a row of a regular file carries a SHA-256 digest, and a
\* row of a directory or of a symbolic link carries the no-digest value
\* (no strategy being active), also when links are followed
C23_LinkRowsNoDigest ==
    \A fr \in LoopFrames : \A n \in 1..Len(fr.fSigs) :
        /\ RowEntry(fr, n).kind = "file"
           => fr.fSigs[n].dsig.kind = "sha256"
        /\ (islink(RowEntry(fr, n)) \/ isdir(RowEntry(fr, n)))
           => fr.fSigs[n].dsig = Zero

\* C23 amended: a row of a regular file, and a row of a symbolic link to a
\* file that is included because links are followed, carries a SHA-256
\* digest: that of the bytes read through the entry's path; neither
\* carries the no-digest value
C23_FileAndLinkRowsDigest ==
    \A fr \in LoopFrames : \A n \in 1..Len(fr.fSigs) :
        RowEntry(fr, n).kind \in {"file", "linkf"}
        => /\ fr.fSigs[n].dsig.kind = "sha256"
           /\ fr.fSigs[n].dsig = Sha256Hex(RowEntry(fr, n).data)
           /\ islink(RowEntry(fr, n)) => args.links

\* with links followed, a symbolic link to a file got its row
C23_Witness ==
    /\ args.links
    /\ \E fr \in LoopFrames : \E n \in 1..Len(fr.fSigs) :
         /\ fr.fSigs[n].name = NameL
         /\ islink(RowEntry(fr, n))

\* C24: whatever a run with --save does, ended by an error or not, the
\* root's manifest file holds the manifest that an earlier run left there,
\* or the whole manifest of a build that returned
C24_NoPartialManifest ==
    \A d \in DirIds : \A k \in 1..Len(fs[d]) :
        fs[d][k].name = args.outfile
        => \/ fs[d][k].data = <<PriorManifest>>
           \/ \E r \in Manifests : r.dir = d /\ fs[d][k].data = <<r.buf>>

\* manifest r of a returned build was printed, or is what the manifest
\* file of its directory holds
Emitted(r) ==
    \/ \E j \in 1..Len(out) : out[j].kind = "manifest" /\ out[j].val = r.buf
    \/ \E k \in 1..Len(fs[r.dir]) :
         /\ fs[r.dir][k].name = args.outfile
         /\ fs[r.dir][k].data = <<r.buf>>

\* C25: when a run with --recursive has ended, the manifest of every
\* directory that was built, the root's and each subdirectory's, was printed
\* or saved into that directory
C25_EveryManifestEmitted ==
    args.recursive /\ mainpc = "done" => \A r \in Manifests : Emitted(r)

\* C26: every build under way below another is that of an entry of the
\* parent's directory for which the classifier decides "directory": no
\* mount point, no hidden directory without --hiddenFiles, no link to a
\* directory without --links
C26_DescendsIntoIncludedOnly ==
    \A k \in 2..Len(stack) :
        LET parent == stack[k - 1]
        IN  \E j \in 1..Len(fs[parent.dir]) :
              LET e == fs[parent.dir][j]
                  fpath == PathJoin(parent.path, e.name)
              IN  /\ fpath = stack[k].path
                  /\ Classify(args, e.name, e, fpath) = "dir"

\* the number of mount point diagnostics printed for entries of the listing
\* of returned build r
MountReports(r) ==
    Cardinality({j \in 1..Len(out) :
        /\ out[j].kind = "Found mount point"
        /\ \E n \in 1..Len(r.ls) : r.ls[n] = out[j].val})

\* the rows of manifest buf below the label row
EntryRows(buf) == SubSeq(buf.files, 2, Len(buf.files))

\* the number of rows whose name ends with the "/" of a directory
MarkedRows(buf) ==
    Cardinality({n \in 1..Len(EntryRows(buf)) :
        LET f == EntryRows(buf)[n].name IN f[Len(f)] = "/"})

\* C27: in the manifest of every build that returned, the total is the sum
\* of the hidden, backup and link entries skipped, the mount point
\* diagnostics and the rows, and subdirs is the number of rows marked "/"
C27_CountsPartition ==
    \A r \in Manifests :
        /\ r.buf.totalFiles =
              r.buf.hiddenFiles + r.buf.backupFiles + r.buf.symlinks
              + MountReports(r) + Len(EntryRows(r.buf))
        /\ r.buf.subdirs = MarkedRows(r.buf)

\* a returned build with a skipped hidden entry, a mount point diagnostic
\* and a row
C27_Witness ==
    \E r \in Manifests :
        /\ r.buf.hiddenFiles > 0
        /\ MountReports(r) > 0
        /\ Len(EntryRows(r.buf)) > 0

\* the counts of manifest buf
Counts(buf) ==
    <<buf.totalFiles, buf.hiddenFiles, buf.backupFiles, buf.symlinks,
      buf.subdirs>>

\* C28: when a run with --save has built the same root twice, with or
\* without --hiddenFiles, the second manifest has the counts and the rows of
\* the first: the manifest file that the first build left is neither
\* counted nor listed
C28_SaveKeepsReport ==
    (/\ args.save
     /\ args.files = <<RootPath, RootPath>>
     /\ Len(returned) = 2)
    => /\ Counts(returned[2].buf) = Counts(returned[1].buf)
       /\ EntryRows(returned[2].buf) = EntryRows(returned[1].buf)

\* C29: a run with --recursive that does not follow links builds no
\* directory inside a build of the same directory, and the recursion never
\* ends the run with an error in place of the return of the root build,
\* also where a link of the tree leads to an ancestor
C29_CycleTerminates ==
    args.recursive /\ ~args.links
    => /\ \A j, k \in 1..Len(stack) : j # k => stack[j].dir # stack[k].dir
       /\ exc # "OSError"

\* whether row describes one state that its file has had: the digest is
\* that of the state's bytes, and size, time and inode are the state's
Snapshot(row) ==
    \E e \in probe.states :
        /\ e.name = row.name
        /\ row.dsig = Sha256Hex(e.data)
        /\ row.size = Len(e.data)
        /\ row.tm = epoch(e.mtime)
        /\ row.ino = e.ino

\* C30: every row that a build has made, while another process modifies,
\* replaces or removes files of the directory, describes one state of its
\* file: size, time and inode are those of the bytes that were digested
C30_ConsistentSnapshot ==
    /\ \A k \in 1..Len(stack) : \A n \in 1..Len(stack[k].fSigs) :
         Snapshot(stack[k].fSigs[n])
    /\ \A r \in Manifests : \A n \in 1..Len(EntryRows(r.buf)) :
         Snapshot(EntryRows(r.buf)[n])

====
